---- MODULE Spec2Model ----
(***************************************************************************)
(* Model of backend/app.py: the FastAPI application, its Prometheus and    *)
(* OpenTelemetry instruments, the observability_middleware coroutine and   *)
(* the route handlers it dispatches to.                                    *)
(*                                                                         *)
(* The application runs on one asyncio event loop, so the code between two *)
(* awaits is one atomic step.  A request suspends at `await call_next`     *)
(* (app.py:212) and, inside the handlers that call simulate_work, at       *)
(* `await asyncio.sleep` (app.py:396); every action below is the code      *)
(* between two such points.  asyncio.CancelledError derives from           *)
(* BaseException (Python 3.8 and later), so `except Exception` at          *)
(* app.py:264 does not catch it while `finally` at app.py:289 still runs.  *)
(***************************************************************************)
EXTENDS Integers, Sequences, FiniteSets, TLC

(***************************************************************************)
(* Bounds of the model.                                                    *)
(***************************************************************************)
MaxRequests == 2
MaxTraceId == 2
MaxTime == 2
IdMargin == 2
MaxFound == 2

(* app.py:339  `if user_id > 10` *)
MaxUserId == 10

(* app.py:360  the id every created user gets *)
NewUserId == 100

(* app.py:42,46  the trace id is 32 hexadecimal digits wide *)
TraceIdWidth == 32

(* app.py:43,47  the span id is 16 hexadecimal digits wide *)
SpanIdWidth == 16

Requests == 1..MaxRequests
TraceIds == 1..MaxTraceId

(* Readings of time.time() *)
Times == 1..MaxTime

VARIABLES
  pc,                    \* position of each request's coroutine
  req,                   \* the Request object: method, path, traceparent header
  ctx,                   \* app.py:182  trace id of the extracted context, 0 = none
  span_trace,            \* trace id of the middleware's span, 0 = no span yet
  span_id,               \* span id of the middleware's span, 0 = no span yet
  app_logs,              \* log records emitted outside any request
  span_status,           \* status of the middleware's span
  events,                \* span open/close events of each request, in order
  logs,                  \* log records the middleware emitted for each request
  call_result,           \* outcome of `await call_next(request)`
  result,                \* what the middleware handed to its caller
  request_count,         \* REQUEST_COUNT   child values by label tuple
  request_duration,      \* REQUEST_DURATION observation counts by label tuple
  error_count,           \* ERROR_COUNT     child values by label tuple
  active_requests,       \* ACTIVE_REQUESTS gauge
  otel_request_counter,  \* otel_request_counter sums by attribute tuple
  otel_request_duration, \* otel_request_duration record counts by attribute tuple
  scrapes,               \* bodies returned by GET /metrics, in order
  collector_up,          \* whether otel-collector:4317 is reachable
  taken,                 \* ended spans the BatchSpanProcessor's worker has taken
  exported,              \* ended spans that reached the collector
  metrics_exported,      \* provider's request total as last exported to the collector
  v_pc,                  \* validate-setup.py: the validator's position
  v_endpoint,            \* index of test_backend_api's current endpoint
  trace_id,              \* ObservabilityValidator.trace_id
  test_results,          \* ObservabilityValidator.test_results
  passed_tests,          \* run_all_tests' passed_tests
  success,               \* what run_all_tests returned, once it has
  exit_status            \* the validator process's exit status, once it has exited

vars == <<pc, req, ctx, span_trace, span_id, app_logs, span_status, events, logs, call_result,
          result, request_count, request_duration, error_count,
          active_requests, otel_request_counter, otel_request_duration,
          scrapes, collector_up, taken, exported, metrics_exported,
          v_pc, v_endpoint, trace_id, test_results, passed_tests, success,
          exit_status>>

registry == <<request_count, request_duration, error_count, active_requests>>
otel == <<otel_request_counter, otel_request_duration>>
telemetry == <<collector_up, taken, exported, metrics_exported>>
validator == <<v_pc, v_endpoint, trace_id, test_results, passed_tests, success,
               exit_status>>
application == <<pc, req, ctx, span_trace, span_id, app_logs, span_status, events, logs,
                 call_result, result, registry, otel, scrapes>>

(***************************************************************************)
(* Inbound requests.  A path is the sequence of its segments: "/" is <<>>, *)
(* "/api/users/10" is <<"api", "users", 10>>.                              *)
(***************************************************************************)
UserIds == {MaxUserId, MaxUserId + 1}

Calls == {<<"GET", <<>>>>, <<"GET", <<"health">>>>, <<"GET", <<"metrics">>>>,
          <<"GET", <<"api", "error">>>>, <<"POST", <<"api", "users">>>>}
           \cup {<<"GET", <<"api", "users", id>>>> : id \in UserIds}

(* JSON request bodies: an object is a function from its keys to strings.  *)
(* A request without a body carries the empty object.                      *)
NoJson == [k \in {} |-> ""]

(* validate-setup.py:108  the body the validator posts *)
UserData == [name |-> "Test User", email |-> "test@example.com"]

(* A traceparent header: absent, not matching the header format, or its   *)
(* parsed trace-id and span-id fields (0 is the all-zero field).          *)
Traceparent(form, t, sp) == [form |-> form, trace_id |-> t, span_id |-> sp]

Traceparents == {Traceparent("absent", 0, 0), Traceparent("malformed", 0, 0),
                 Traceparent("parsed", 1, 0)}
                  \cup {Traceparent("parsed", t, 1) : t \in 0..MaxTraceId}

Request(method, path, traceparent) ==
  [method |-> method, path |-> path, traceparent |-> traceparent,
   json |-> IF method = "POST" THEN UserData ELSE NoJson]

(* The same request with another JSON body *)
WithJson(request, data) == [request EXCEPT !.json = data]

(* The requests clients send: every call without a traceparent header, and *)
(* GET / with every header; routing reads only the method and the path,    *)
(* extract() only the headers.                                             *)
Inbound == {Request(c[1], c[2], Traceparent("absent", 0, 0)) : c \in Calls}
             \cup {Request("GET", <<>>, tp) : tp \in Traceparents}

(* Exceptions that call_next lets escape: Starlette's "No response        *)
(* returned." RuntimeError, and any error a route raises for which no     *)
(* exception handler is registered.                                       *)
ErrorTypes == {"RuntimeError", "ValueError"}

NoResult == [kind |-> "none"]
ResponseOf(status, body, headers) ==
  [kind |-> "response", status_code |-> status, body |-> body, headers |-> headers]
Raised(e) == [kind |-> "raise", error_type |-> e]

Unset == [status_code |-> "UNSET", description |-> <<>>]

(***************************************************************************)
(* Instruments.  A labelled instrument is a function from the label tuples *)
(* used so far to the child's value; labels() creates a child at 0.        *)
(***************************************************************************)
ValueOf(c, k) == IF k \in DOMAIN c THEN c[k] ELSE 0

Inc(c, k) == [x \in DOMAIN c \cup {k} |-> ValueOf(c, x) + (IF x = k THEN 1 ELSE 0)]

Total(c) ==
  LET RECURSIVE Sum(_)
      Sum(S) == IF S = {} THEN 0
                ELSE LET k == CHOOSE x \in S : TRUE IN c[k] + Sum(S \ {k})
  IN Sum(DOMAIN c)

(***************************************************************************)
(* Trace context.                                                          *)
(***************************************************************************)
(* An extract that never continues the inbound trace *)
extract_nothing(carrier) == 0

(* opentelemetry.propagate.extract on the request headers: the trace id of *)
(* the remote parent, 0 when the header gives none.                        *)
extract(carrier) ==
  IF carrier.form # "parsed" THEN 0
  ELSE IF carrier.trace_id = 0 \/ carrier.span_id = 0 THEN 0
  ELSE carrier.trace_id

(* tracer.start_as_current_span(..., context=ctx): the trace ids the new   *)
(* span can get, the parent's or a generated non-zero one.                 *)
start_span_trace_ids(c) == IF c # 0 THEN {c} ELSE TraceIds

(***************************************************************************)
(* Routing and handlers.                                                   *)
(***************************************************************************)
Route(method, path) ==
  CASE path = <<>> -> IF method = "GET" THEN "root" ELSE "method_not_allowed"
    [] path = <<"health">> -> IF method = "GET" THEN "health_check" ELSE "method_not_allowed"
    [] path = <<"metrics">> -> IF method = "GET" THEN "metrics" ELSE "method_not_allowed"
    [] path = <<"api", "users">> -> IF method = "GET" THEN "get_users" ELSE "create_user"
    [] path = <<"api", "slow">> -> IF method = "GET" THEN "slow_endpoint" ELSE "method_not_allowed"
    [] path = <<"api", "error">> -> IF method = "GET" THEN "error_endpoint" ELSE "method_not_allowed"
    [] Len(path) = 3 /\ SubSeq(path, 1, 2) = <<"api", "users">> ->
         IF method = "GET" THEN "get_user" ELSE "method_not_allowed"
    [] OTHER -> "not_found"

(* The span a handler opens with tracer.start_as_current_span, <<>> if none *)
HandlerSpan(h) ==
  CASE h = "root" -> <<"root_handler">>
    [] h = "get_users" -> <<"get_users">>
    [] h = "get_user" -> <<"get_user">>
    [] h = "create_user" -> <<"create_user">>
    [] h = "slow_endpoint" -> <<"slow_operation">>
    [] h = "error_endpoint" -> <<"error_operation">>
    [] OTHER -> <<>>

(* Handlers that await simulate_work *)
Sleeps(h) == h \in {"get_users", "get_user", "create_user", "slow_endpoint"}

(* Status of the response call_next returns: the handler's return value as *)
(* 200, an HTTPException as its status_code (FastAPI's exception handler   *)
(* runs inside call_next), the router's own 404 and 405.                   *)
(* A handler returns a value, which FastAPI serialises as a 200 JSON        *)
(* response, or raises HTTPException, which FastAPI's exception handler    *)
(* turns into a response with that status and {"detail": ...}.             *)
Returns(content) == [status_code |-> 200, body |-> content]

HTTPException(status, detail) == [status_code |-> status, body |-> [detail |-> detail]]

(* Python's None, as dict.get returns it for a missing key *)
None == [type |-> "NoneType"]

DictGet(d, k) == IF k \in DOMAIN d THEN d[k] ELSE None

(* A health check that reports trouble once the clock has advanced *)
health_check_aging(now) ==
  Returns([status |-> IF now > 1 THEN "unhealthy" ELSE "healthy", timestamp |-> now])

(* app.py:294-296 *)
health_check(now) == Returns([status |-> "healthy", timestamp |-> now])

(* app.py:304-309 *)
root == Returns([message |-> "FastAPI Backend with Observability", version |-> "1.0.0"])

(* app.py:311-328 *)
get_users ==
  Returns([users |-> <<[id |-> 1, name |-> "Alice", email |-> "alice@example.com"],
                       [id |-> 2, name |-> "Bob", email |-> "bob@example.com"],
                       [id |-> 3, name |-> "Charlie", email |-> "charlie@example.com"]>>,
           count |-> 3])

(* A lookup that also rejects the last known id *)
get_user_exclusive(user_id) ==
  IF user_id >= MaxUserId THEN HTTPException(404, "User not found")
  ELSE Returns([id |-> user_id, name |-> <<"User ", user_id>>,
                email |-> <<"user", user_id, "@example.com">>])

(* app.py:330-351  An f-string is the sequence of its parts. *)
get_user(user_id) ==
  IF user_id > MaxUserId THEN HTTPException(404, "User not found")
  ELSE Returns([id |-> user_id, name |-> <<"User ", user_id>>,
                email |-> <<"user", user_id, "@example.com">>])

(* A creation that stores the name as the email and the email as the name *)
create_user_swapped(user_data, now) ==
  Returns([id |-> NewUserId, name |-> DictGet(user_data, "email"),
           email |-> DictGet(user_data, "name"), created_at |-> now])

(* app.py:353-370 *)
create_user(user_data, now) ==
  Returns([id |-> NewUserId, name |-> DictGet(user_data, "name"),
           email |-> DictGet(user_data, "email"), created_at |-> now])

(* app.py:372-381 *)
slow_endpoint ==
  Returns([message |-> "This was a slow operation", duration |-> "2-3 seconds"])

(* app.py:383-389 *)
error_endpoint == HTTPException(500, "Intentional server error for testing")

(* What the application below the middleware answers on route h; routes    *)
(* the router itself answers have Starlette's 404 and 405.  The body of    *)
(* /metrics is generate_latest()'s output, set where the registry is read. *)
Handler(h, request, now) ==
  CASE h = "health_check" -> health_check(now)
    [] h = "root" -> root
    [] h = "get_users" -> get_users
    [] h = "get_user" -> get_user(request.path[3])
    [] h = "create_user" -> create_user(request.json, now)
    [] h = "slow_endpoint" -> slow_endpoint
    [] h = "error_endpoint" -> error_endpoint
    [] h = "not_found" -> HTTPException(404, "Not Found")
    [] h = "method_not_allowed" -> HTTPException(405, "Method Not Allowed")
    [] OTHER -> Returns(<<>>)

(* The headers of the response the application builds: FastAPI's JSON     *)
(* responses and app.py:301 set the content type; no handler sets others.  *)
ResponseHeaders(h) ==
  "content-type" :> (IF h = "metrics" THEN "text/plain; version=0.0.4; charset=utf-8"
                     ELSE "application/json")

HandlerStatus(h, path) ==
  CASE h = "get_user" -> get_user(path[3]).status_code
    [] h = "error_endpoint" -> error_endpoint.status_code
    [] h = "not_found" -> 404
    [] h = "method_not_allowed" -> 405
    [] OTHER -> 200

Open(name) == <<"open", name>>
Close(name) == <<"close", name>>

OpenHandlerSpan(h) == IF HandlerSpan(h) = <<>> THEN <<>> ELSE <<Open(HandlerSpan(h)[1])>>
(* A handler span that is never ended *)
CloseHandlerSpanNever(h) == <<>>

CloseHandlerSpan(h) == IF HandlerSpan(h) = <<>> THEN <<>> ELSE <<Close(HandlerSpan(h)[1])>>

HandlerOf(r) == Route(req[r].method, req[r].path)

(* app.py:301  generate_latest() renders the registry's current values and *)
(* leaves them in place: `output` is the body, `registry` the registry     *)
(* after the call.                                                         *)
Registry ==
  [request_count |-> request_count, request_duration |-> request_duration,
   error_count |-> error_count, active_requests |-> active_requests]

(* A scrape that leaves itself out of the requests in flight *)
generate_latest_but_self(reg) ==
  [output |-> [reg EXCEPT !.active_requests = @ - 1], registry |-> reg]

(* A scrape that clears what it has read *)
generate_latest_reset(reg) ==
  [output |-> reg,
   registry |-> [reg EXCEPT !.request_count = [k \in DOMAIN @ |-> 0],
                            !.error_count = [k \in DOMAIN @ |-> 0]]]

generate_latest(reg) == [output |-> reg, registry |-> reg]

(* Exceptions `except Exception` catches; CancelledError is a BaseException *)
IsException(e) == e # "CancelledError"

(***************************************************************************)
(* State after module import: instruments created, no request received.    *)
(***************************************************************************)
NoRequest == Request("", <<>>, Traceparent("absent", 0, 0))

(* validate-setup.py:38  an empty dict *)
NoResults == [name \in {} |-> FALSE]

(* The exit status of a process that has not exited *)
Running == 0 - 1

Imported ==
  /\ pc = [r \in Requests |-> "idle"]
  /\ req = [r \in Requests |-> NoRequest]
  /\ ctx = [r \in Requests |-> 0]
  /\ span_trace = [r \in Requests |-> 0]
  /\ span_id = [r \in Requests |-> 0]
  /\ app_logs = <<>>
  /\ span_status = [r \in Requests |-> Unset]
  /\ events = [r \in Requests |-> <<>>]
  /\ logs = [r \in Requests |-> <<>>]
  /\ call_result = [r \in Requests |-> NoResult]
  /\ result = [r \in Requests |-> NoResult]
  /\ request_count = <<>>
  /\ request_duration = <<>>
  /\ error_count = <<>>
  /\ active_requests = 0
  /\ otel_request_counter = <<>>
  /\ otel_request_duration = <<>>
  /\ scrapes = <<>>
  /\ taken = 0
  /\ exported = 0
  /\ metrics_exported = 0
  /\ v_pc = "test_basic_connectivity"
  /\ v_endpoint = 1
  /\ trace_id = None
  /\ test_results = NoResults
  /\ passed_tests = 0
  /\ success = FALSE
  /\ exit_status = Running

Init == Imported /\ collector_up = TRUE

(***************************************************************************)
(* Logging.  app.py:32-49  TraceFormatter.format reads the span that is    *)
(* current in the context of the code that logs and writes its ids as      *)
(* fixed-width hexadecimal, or the all-zero ids when that span is not      *)
(* valid.  A formatted id is the sequence of its hexadecimal digits.       *)
(***************************************************************************)
SpanContext(t, s) == [trace_id |-> t, span_id |-> s, is_valid |-> t # 0 /\ s # 0]

INVALID_SPAN == SpanContext(0, 0)

RECURSIVE format_x(_, _)
format_x(n, width) ==
  IF width = 0 THEN <<>> ELSE Append(format_x(n \div 16, width - 1), n % 16)

RECURSIVE Zeros(_)
Zeros(width) == IF width = 0 THEN <<>> ELSE Append(Zeros(width - 1), 0)

LogRecord(level, msg, span) ==
  [levelname |-> level, message |-> msg,
   trace_id |-> IF span.is_valid THEN format_x(span.trace_id, TraceIdWidth)
                ELSE Zeros(TraceIdWidth),
   span_id |-> IF span.is_valid THEN format_x(span.span_id, SpanIdWidth)
               ELSE Zeros(SpanIdWidth)]

(* RandomIdGenerator.generate_span_id: a span id no other span has; the    *)
(* ids are opaque, so the model names them in the order they are drawn.    *)
generate_span_id(ids) == Cardinality({q \in DOMAIN ids : ids[q] # 0}) + 1

(* A current span kept in one place for the whole process: the span that   *)
(* was started last.                                                       *)
get_current_span_shared(r, traces, ids) ==
  LET started == {q \in DOMAIN ids : ids[q] # 0}
      last == CHOOSE q \in started : \A p \in started : ids[p] <= ids[q]
  IN IF started = {} THEN INVALID_SPAN ELSE SpanContext(traces[last], ids[last])

(* trace.get_current_span() in the coroutine of request r: the current     *)
(* span is a context variable, each request's coroutine has its own        *)
(* context, and inside the `with` block of app.py:184 it holds the         *)
(* middleware's span.                                                      *)
get_current_span(r, traces, ids) == SpanContext(traces[r], ids[r])

(* app.py:149-151  The lifespan's startup record, logged before the server *)
(* accepts requests and outside any span.                                  *)
lifespan ==
  /\ app_logs = <<>>
  /\ app_logs' = <<LogRecord("INFO", "FastAPI application starting up...", INVALID_SPAN)>>
  /\ UNCHANGED <<pc, req, ctx, span_trace, span_id, span_status, events, logs,
                 call_result, result, registry, otel, scrapes, telemetry, validator>>

(***************************************************************************)
(* app.py:177-212  A request arrives: the instrumentor's server span is    *)
(* opened, then the middleware runs up to `await call_next(request)`.      *)
(***************************************************************************)
Entry(r, request) ==
  /\ pc[r] = "idle"
  /\ app_logs # <<>>
  /\ \A q \in Requests : q < r => pc[q] # "idle"
  /\ req' = [req EXCEPT ![r] = request]
  /\ ctx' = [ctx EXCEPT ![r] = extract(request.traceparent)]
  /\ \E t \in start_span_trace_ids(ctx'[r]) :
       span_trace' = [span_trace EXCEPT ![r] = t]
  /\ span_id' = [span_id EXCEPT ![r] = generate_span_id(span_id)]
  /\ logs' = [logs EXCEPT ![r] =
                <<LogRecord("INFO", "Request started", get_current_span(r, span_trace', span_id'))>>]
  /\ events' = [events EXCEPT ![r] = <<Open("FastAPIInstrumentor"), Open("observability_middleware")>>]
  /\ active_requests' = active_requests + 1
  /\ pc' = [pc EXCEPT ![r] = "dispatch"]
  /\ UNCHANGED <<app_logs, span_status, call_result, result, request_count,
                 request_duration, error_count, otel, scrapes, telemetry, validator>>

(***************************************************************************)
(* call_next runs the route handler up to its first await, or to its end.  *)
(***************************************************************************)
HandlerRun(r) ==
  /\ pc[r] = "dispatch"
  /\ LET h == HandlerOf(r) IN
       IF Sleeps(h)
       THEN /\ events' = [events EXCEPT ![r] = @ \o OpenHandlerSpan(h)]
            /\ pc' = [pc EXCEPT ![r] = "sleeping"]
            /\ UNCHANGED <<call_result, scrapes, registry>>
       ELSE /\ events' = [events EXCEPT ![r] = @ \o OpenHandlerSpan(h) \o CloseHandlerSpan(h)]
            /\ pc' = [pc EXCEPT ![r] = "responded"]
            /\ IF h = "metrics"
               THEN LET g == generate_latest(Registry) IN
                      /\ call_result' = [call_result EXCEPT ![r] = ResponseOf(200, g.output, ResponseHeaders(h))]
                      /\ scrapes' = Append(scrapes, g.output)
                      /\ request_count' = g.registry.request_count
                      /\ request_duration' = g.registry.request_duration
                      /\ error_count' = g.registry.error_count
                      /\ active_requests' = g.registry.active_requests
               ELSE /\ \E now \in Times :
                         LET answer == Handler(h, req[r], now) IN
                           call_result' = [call_result EXCEPT ![r] =
                                             ResponseOf(answer.status_code, answer.body, ResponseHeaders(h))]
                    /\ UNCHANGED <<scrapes, registry>>
  /\ UNCHANGED <<req, ctx, span_trace, span_id, app_logs, span_status, logs, result, otel,
                 telemetry, validator>>

(* app.py:392-396  asyncio.sleep returns and the handler runs to its end   *)
HandlerResume(r) ==
  /\ pc[r] = "sleeping"
  /\ LET h == HandlerOf(r) IN
       /\ events' = [events EXCEPT ![r] = @ \o CloseHandlerSpan(h)]
       /\ \E now \in Times :
            LET answer == Handler(h, req[r], now) IN
              call_result' = [call_result EXCEPT ![r] =
                                ResponseOf(answer.status_code, answer.body, ResponseHeaders(h))]
  /\ pc' = [pc EXCEPT ![r] = "responded"]
  /\ UNCHANGED <<req, ctx, span_trace, span_id, app_logs, span_status, logs, result, registry,
                 otel, scrapes, telemetry, validator>>

(* call_next raises: an exception escapes the application below the        *)
(* middleware; a handler span that is open is closed on the way out.       *)
HandlerRaises(r, e) ==
  /\ pc[r] \in {"dispatch", "sleeping"}
  /\ events' = [events EXCEPT ![r] =
                  IF pc[r] = "sleeping" THEN @ \o CloseHandlerSpan(HandlerOf(r)) ELSE @]
  /\ call_result' = [call_result EXCEPT ![r] = Raised(e)]
  /\ pc' = [pc EXCEPT ![r] = "responded"]
  /\ UNCHANGED <<req, ctx, span_trace, span_id, app_logs, span_status, logs, result, registry,
                 otel, scrapes, telemetry, validator>>

(***************************************************************************)
(* The middleware after `await call_next(request)`.                        *)
(***************************************************************************)
RequestLabels(r, status) == <<req[r].method, req[r].path, ToString(status)>>
DurationLabels(r) == <<req[r].method, req[r].path>>
(* The error label without the exception's type name *)
ErrorLabelsUntyped(r, e) == <<req[r].method, req[r].path, "Exception">>

ErrorLabels(r, e) == <<req[r].method, req[r].path, e>>

(* A status that reports only server errors as ERROR *)
StatusForServerErrors(status) ==
  IF status >= 500 THEN [status_code |-> "ERROR", description |-> <<"HTTP", status>>]
  ELSE [status_code |-> "OK", description |-> <<>>]

(* app.py:256-260 *)
StatusFor(status) ==
  IF status >= 400 THEN [status_code |-> "ERROR", description |-> <<"HTTP", status>>]
  ELSE [status_code |-> "OK", description |-> <<>>]

ErrorStatus(e) == [status_code |-> "ERROR", description |-> <<e>>]

(* A success branch that adds to the provider's counter for OK responses only *)
SuccessExportsOkOnly(r) ==
  /\ call_result[r].kind = "response"
  /\ LET status == call_result[r].status_code IN
       /\ request_count' = Inc(request_count, RequestLabels(r, status))
       /\ request_duration' = Inc(request_duration, DurationLabels(r))
       /\ otel_request_counter' = IF status < 400
                                  THEN Inc(otel_request_counter, RequestLabels(r, status))
                                  ELSE otel_request_counter
       /\ otel_request_duration' = Inc(otel_request_duration, DurationLabels(r))
       /\ logs' = [logs EXCEPT ![r] = Append(@, LogRecord("INFO", "Request completed", get_current_span(r, span_trace, span_id)))]
       /\ span_status' = [span_status EXCEPT ![r] = StatusFor(status)]
       /\ result' = [result EXCEPT ![r] = call_result[r]]
  /\ UNCHANGED error_count

(* A success branch that counts only OK responses *)
SuccessCountsOkOnly(r) ==
  /\ call_result[r].kind = "response"
  /\ LET status == call_result[r].status_code IN
       /\ request_count' = IF status < 400 THEN Inc(request_count, RequestLabels(r, status))
                           ELSE request_count
       /\ request_duration' = Inc(request_duration, DurationLabels(r))
       /\ otel_request_counter' = Inc(otel_request_counter, RequestLabels(r, status))
       /\ otel_request_duration' = Inc(otel_request_duration, DurationLabels(r))
       /\ logs' = [logs EXCEPT ![r] = Append(@, LogRecord("INFO", "Request completed", get_current_span(r, span_trace, span_id)))]
       /\ span_status' = [span_status EXCEPT ![r] = StatusFor(status)]
       /\ result' = [result EXCEPT ![r] = call_result[r]]
  /\ UNCHANGED error_count

(* A success branch that counts error responses as errors *)
SuccessCountsErrors(r) ==
  /\ call_result[r].kind = "response"
  /\ LET status == call_result[r].status_code IN
       /\ request_count' = Inc(request_count, RequestLabels(r, status))
       /\ request_duration' = Inc(request_duration, DurationLabels(r))
       /\ otel_request_counter' = Inc(otel_request_counter, RequestLabels(r, status))
       /\ otel_request_duration' = Inc(otel_request_duration, DurationLabels(r))
       /\ logs' = [logs EXCEPT ![r] = Append(@, LogRecord("INFO", "Request completed", get_current_span(r, span_trace, span_id)))]
       /\ span_status' = [span_status EXCEPT ![r] = StatusFor(status)]
       /\ result' = [result EXCEPT ![r] = call_result[r]]
       /\ error_count' = IF status >= 400 THEN Inc(error_count, ErrorLabels(r, "HTTPException"))
                         ELSE error_count

(* A success branch whose provider instruments send to the collector as   *)
(* they are updated, and fail when it cannot be reached                    *)
SuccessExportsInline(r) ==
  /\ call_result[r].kind = "response"
  /\ LET status == call_result[r].status_code IN
       /\ request_count' = Inc(request_count, RequestLabels(r, status))
       /\ request_duration' = Inc(request_duration, DurationLabels(r))
       /\ otel_request_counter' = Inc(otel_request_counter, RequestLabels(r, status))
       /\ otel_request_duration' = Inc(otel_request_duration, DurationLabels(r))
       /\ logs' = [logs EXCEPT ![r] = Append(@, LogRecord("INFO", "Request completed", get_current_span(r, span_trace, span_id)))]
       /\ span_status' = [span_status EXCEPT ![r] = StatusFor(status)]
       /\ result' = [result EXCEPT ![r] =
                       IF collector_up THEN call_result[r] ELSE Raised("ExportError")]
  /\ UNCHANGED error_count

(* app.py:212-262  call_next returned a response *)
Success(r) ==
  /\ call_result[r].kind = "response"
  /\ LET status == call_result[r].status_code IN
       /\ request_count' = Inc(request_count, RequestLabels(r, status))
       /\ request_duration' = Inc(request_duration, DurationLabels(r))
       /\ otel_request_counter' = Inc(otel_request_counter, RequestLabels(r, status))
       /\ otel_request_duration' = Inc(otel_request_duration, DurationLabels(r))
       /\ logs' = [logs EXCEPT ![r] = Append(@, LogRecord("INFO", "Request completed", get_current_span(r, span_trace, span_id)))]
       /\ span_status' = [span_status EXCEPT ![r] = StatusFor(status)]
       /\ result' = [result EXCEPT ![r] = call_result[r]]
  /\ UNCHANGED error_count

(* A failure branch that also logs the request as completed *)
FailureLogsCompleted(r) ==
  /\ call_result[r].kind = "raise"
  /\ IsException(call_result[r].error_type)
  /\ LET e == call_result[r].error_type IN
       /\ error_count' = Inc(error_count, ErrorLabels(r, e))
       /\ span_status' = [span_status EXCEPT ![r] = ErrorStatus(e)]
       /\ logs' = [logs EXCEPT ![r] =
                     @ \o <<LogRecord("ERROR", "Request failed", get_current_span(r, span_trace, span_id)),
                            LogRecord("INFO", "Request completed", get_current_span(r, span_trace, span_id))>>]
       /\ result' = [result EXCEPT ![r] = call_result[r]]
  /\ UNCHANGED <<request_count, request_duration, otel>>

(* A failure branch that answers 500 instead of re-raising *)
FailureSwallows(r) ==
  /\ call_result[r].kind = "raise"
  /\ IsException(call_result[r].error_type)
  /\ LET e == call_result[r].error_type IN
       /\ error_count' = Inc(error_count, ErrorLabels(r, e))
       /\ span_status' = [span_status EXCEPT ![r] = ErrorStatus(e)]
       /\ logs' = [logs EXCEPT ![r] = Append(@, LogRecord("ERROR", "Request failed", get_current_span(r, span_trace, span_id)))]
       /\ result' = [result EXCEPT ![r] = ResponseOf(500, [detail |-> "Internal Server Error"], ResponseHeaders("error"))]
  /\ UNCHANGED <<request_count, request_duration, otel>>

(* app.py:264-288  call_next raised an Exception *)
Failure(r) ==
  /\ call_result[r].kind = "raise"
  /\ IsException(call_result[r].error_type)
  /\ LET e == call_result[r].error_type IN
       /\ error_count' = Inc(error_count, ErrorLabels(r, e))
       /\ span_status' = [span_status EXCEPT ![r] = ErrorStatus(e)]
       /\ logs' = [logs EXCEPT ![r] = Append(@, LogRecord("ERROR", "Request failed", get_current_span(r, span_trace, span_id)))]
       /\ result' = [result EXCEPT ![r] = call_result[r]]
  /\ UNCHANGED <<request_count, request_duration, otel>>

(* A BaseException that leaves the middleware's coroutine suspended *)
UncaughtNeverUnwinds(r) == FALSE

(* app.py:212 raised a BaseException that is not an Exception: no except   *)
(* clause matches and it propagates.  The `with` of app.py:184 leaves the  *)
(* span's status alone or sets ERROR, depending on the library version.    *)
Uncaught(r) ==
  /\ call_result[r].kind = "raise"
  /\ ~IsException(call_result[r].error_type)
  /\ result' = [result EXCEPT ![r] = call_result[r]]
  /\ \/ span_status' = span_status
     \/ span_status' = [span_status EXCEPT ![r] = ErrorStatus(call_result[r].error_type)]
  /\ UNCHANGED <<request_count, request_duration, error_count, otel, logs>>

(* The handler span of r that is still open *)
OpenHandlerSpans(r) ==
  LET h == HandlerOf(r) IN
    IF /\ HandlerSpan(h) # <<>>
       /\ \E i \in 1..Len(events[r]) : events[r][i] = Open(HandlerSpan(h)[1])
       /\ \A i \in 1..Len(events[r]) : events[r][i] # Close(HandlerSpan(h)[1])
    THEN CloseHandlerSpan(h) ELSE <<>>

(* An exit after an except branch that has already decremented the gauge *)
ExitDecrementsAgain(r) ==
  /\ active_requests' = IF call_result[r].kind = "raise" /\ IsException(call_result[r].error_type)
                         THEN active_requests - 2
                         ELSE active_requests - 1
  /\ \E before \in BOOLEAN :
       events' = [events EXCEPT ![r] =
                    (IF before
                     THEN @ \o OpenHandlerSpans(r) \o <<Close("observability_middleware")>>
                     ELSE @ \o <<Close("observability_middleware")>> \o OpenHandlerSpans(r))
                    \o <<Close("FastAPIInstrumentor")>>]
  /\ pc' = [pc EXCEPT ![r] = "done"]

(* An exit that decrements the gauge on the success path only *)
ExitOnSuccessOnly(r) ==
  /\ active_requests' = IF call_result[r].kind = "response" THEN active_requests - 1
                         ELSE active_requests
  /\ \E before \in BOOLEAN :
       events' = [events EXCEPT ![r] =
                    (IF before
                     THEN @ \o OpenHandlerSpans(r) \o <<Close("observability_middleware")>>
                     ELSE @ \o <<Close("observability_middleware")>> \o OpenHandlerSpans(r))
                    \o <<Close("FastAPIInstrumentor")>>]
  /\ pc' = [pc EXCEPT ![r] = "done"]

(* app.py:289-291 and the exit of the `with` of app.py:184: the gauge is   *)
(* decremented and the middleware's span ended.  The response or the error *)
(* then leaves through the instrumentor, which ends the server span.  A    *)
(* handler cancelled in its sleep unwinds in its own task, before or after *)
(* the middleware does, and before the request is finished.                *)
Exit(r) ==
  /\ active_requests' = active_requests - 1
  /\ \E before \in BOOLEAN :
       events' = [events EXCEPT ![r] =
                    (IF before
                     THEN @ \o OpenHandlerSpans(r) \o <<Close("observability_middleware")>>
                     ELSE @ \o <<Close("observability_middleware")>> \o OpenHandlerSpans(r))
                    \o <<Close("FastAPIInstrumentor")>>]
  /\ pc' = [pc EXCEPT ![r] = "done"]

Completion(r) ==
  /\ pc[r] = "responded"
  /\ \/ Success(r)
     \/ Failure(r)
     \/ Uncaught(r)
  /\ Exit(r)
  /\ UNCHANGED <<req, ctx, span_trace, span_id, app_logs, call_result, scrapes, telemetry, validator>>

(***************************************************************************)
(* The transport cancels the request while the middleware is suspended in  *)
(* `await call_next`: CancelledError is what app.py:212 raises when the    *)
(* coroutine next runs.                                                    *)
(***************************************************************************)
Cancel(r) ==
  /\ pc[r] \in {"dispatch", "sleeping", "responded"}
  /\ call_result[r] # Raised("CancelledError")
  /\ call_result' = [call_result EXCEPT ![r] = Raised("CancelledError")]
  /\ pc' = [pc EXCEPT ![r] = "responded"]
  /\ UNCHANGED <<req, ctx, span_trace, span_id, app_logs, span_status, events, logs, result, registry,
                 otel, scrapes, telemetry, validator>>

Serve(r, inbound) ==
  \/ \E request \in inbound : Entry(r, request)
  \/ HandlerRun(r)
  \/ HandlerResume(r)
  \/ \E e \in ErrorTypes : HandlerRaises(r, e)
  \/ Completion(r)
  \/ Cancel(r)

Next ==
  \/ lifespan
  \/ \E r \in Requests : Serve(r, Inbound)

Spec == Init /\ [][Next]_vars

(***************************************************************************)
(* Progress.  The event loop resumes a coroutine whose await has finished, *)
(* so a middleware whose call_next has returned or raised runs on to its   *)
(* end; a handler that has been dispatched is taken to run, and one that   *)
(* sleeps to wake, unless it raises or is cancelled first.                 *)
(***************************************************************************)
Fairness ==
  \A r \in Requests :
    /\ WF_vars(HandlerRun(r))
    /\ WF_vars(HandlerResume(r))
    /\ WF_vars(Completion(r))

(* Requests of a route that answers at once, of one that sleeps and of one *)
(* that answers with an error *)
LiveInbound ==
  {Request("GET", <<>>, Traceparent("absent", 0, 0)),
   Request("GET", <<"api", "users", MaxUserId>>, Traceparent("absent", 0, 0)),
   Request("GET", <<"api", "error">>, Traceparent("absent", 0, 0))}

NextLive ==
  \/ lifespan
  \/ \E r \in Requests : Serve(r, LiveInbound)

SpecLive == Init /\ [][NextLive]_vars /\ Fairness

(***************************************************************************)
(* The same application serving the user routes only, one request at a    *)
(* time, over a wider range of user ids and request bodies.                *)
(***************************************************************************)
UserIdRange == (0 - IdMargin)..(MaxUserId + IdMargin)

UserDatas ==
  {UserData,
   [name |-> "", email |-> "ann@example.com"],
   [name |-> "Bob", email |-> "bob@example.com", id |-> "7"],
   [email |-> "carol@example.com"]}

UserRequests ==
  {Request("GET", <<"api", "users", id>>, Traceparent("absent", 0, 0)) : id \in UserIdRange}
    \cup {WithJson(Request("POST", <<"api", "users">>, Traceparent("absent", 0, 0)), d) :
            d \in UserDatas}

NextUsers ==
  \/ lifespan
  \/ Serve(1, UserRequests)

SpecUsers == Init /\ [][NextUsers]_vars

(***************************************************************************)
(* Export to the collector.  app.py:79-98  Ended spans are queued by the   *)
(* BatchSpanProcessor and the provider's instruments are read by the       *)
(* PeriodicExportingMetricReader; each exports from its own worker thread, *)
(* and a failed export is logged there and its batch dropped.  The         *)
(* exporters' gRPC channel is opened lazily, so init_telemetry does not    *)
(* contact the collector.                                                  *)
(***************************************************************************)
EndedSpans ==
  LET RECURSIVE Sum(_)
      Sum(S) == IF S = {} THEN 0
                ELSE LET r == CHOOSE x \in S : TRUE IN
                       Cardinality({i \in 1..Len(events[r]) : events[r][i][1] = "close"})
                         + Sum(S \ {r})
  IN Sum(Requests)

(* The collector becomes reachable or unreachable *)
collector_flip ==
  /\ collector_up' = ~collector_up
  /\ UNCHANGED <<pc, req, ctx, span_trace, span_id, app_logs, span_status, events, logs,
                 call_result, result, registry, otel, scrapes, taken, exported,
                 metrics_exported, validator>>

(* app.py:85  BatchSpanProcessor's worker takes the queued spans and       *)
(* exports them                                                            *)
export ==
  /\ taken < EndedSpans
  /\ taken' = EndedSpans
  /\ exported' = IF collector_up THEN exported + (EndedSpans - taken) ELSE exported
  /\ UNCHANGED <<pc, req, ctx, span_trace, span_id, app_logs, span_status, events, logs,
                 call_result, result, registry, otel, scrapes, collector_up,
                 metrics_exported, validator>>

(* app.py:89-95  PeriodicExportingMetricReader's tick *)
collect ==
  /\ metrics_exported # Total(otel_request_counter)
  /\ metrics_exported' = IF collector_up THEN Total(otel_request_counter)
                         ELSE metrics_exported
  /\ UNCHANGED <<pc, req, ctx, span_trace, span_id, app_logs, span_status, events, logs,
                 call_result, result, registry, otel, scrapes, collector_up, taken,
                 exported, validator>>

TelemetryInbound ==
  {Request("GET", <<>>, Traceparent("absent", 0, 0)),
   Request("GET", <<"api", "users", MaxUserId + 1>>, Traceparent("absent", 0, 0))}

InitTelemetry == Imported /\ collector_up \in BOOLEAN

NextTelemetry ==
  \/ lifespan
  \/ collector_flip
  \/ export
  \/ collect
  \/ \E r \in Requests : Serve(r, TelemetryInbound)

SpecTelemetry == InitTelemetry /\ [][NextTelemetry]_vars

(***************************************************************************)
(* validate-setup.py  The validator as the application's only client.      *)
(* run_all_tests runs test_backend_api before test_trace_correlation; the  *)
(* tests between them neither read nor write trace_id.  A request of the   *)
(* validator is served by the application in request slot 1: the validator *)
(* sends it (Entry), the application serves it, and the validator reads    *)
(* the outcome, after which the slot is free for the next request.         *)
(***************************************************************************)
(* validate-setup.py:104-109 *)
endpoints ==
  <<Request("GET", <<>>, Traceparent("absent", 0, 0)),
    Request("GET", <<"api", "users">>, Traceparent("absent", 0, 0)),
    Request("GET", <<"api", "users", 1>>, Traceparent("absent", 0, 0)),
    Request("POST", <<"api", "users">>, Traceparent("absent", 0, 0))>>

(* response.headers.get(name) *)
HeadersGet(headers, name) == IF name \in DOMAIN headers THEN headers[name] ELSE None

(* What the client receives for what the middleware handed on: a response  *)
(* as it is, and for an exception the 500 of Starlette's                   *)
(* ServerErrorMiddleware, which is plain text.                             *)
Received(res) ==
  IF res.kind = "response" THEN res
  ELSE ResponseOf(500, "Internal Server Error",
                  "content-type" :> "text/plain; charset=utf-8")

(* The request slot as it is before a request arrives *)
Released(r) ==
  /\ pc' = [pc EXCEPT ![r] = "idle"]
  /\ req' = [req EXCEPT ![r] = NoRequest]
  /\ ctx' = [ctx EXCEPT ![r] = 0]
  /\ span_trace' = [span_trace EXCEPT ![r] = 0]
  /\ span_id' = [span_id EXCEPT ![r] = 0]
  /\ span_status' = [span_status EXCEPT ![r] = Unset]
  /\ events' = [events EXCEPT ![r] = <<>>]
  /\ logs' = [logs EXCEPT ![r] = <<>>]
  /\ call_result' = [call_result EXCEPT ![r] = NoResult]
  /\ result' = [result EXCEPT ![r] = NoResult]

Record(results, test_name, outcome) ==
  [name \in DOMAIN results \cup {test_name} |->
     IF name = test_name THEN outcome ELSE results[name]]

(* Python values a test returns, and their truth value in `if result:`:    *)
(* a dict is true unless it is empty.                                      *)
PyBool(b) == [type |-> "bool", value |-> b]

PyDict(d) == [type |-> "dict", value |-> d]

Truthy(x) == IF x.type = "dict" THEN DOMAIN x.value # {} ELSE x.value

(* validate-setup.py:401-410 *)
tests ==
  <<[name |-> "Basic Connectivity", func |-> "test_basic_connectivity"],
    [name |-> "Backend API", func |-> "test_backend_api"],
    [name |-> "Prometheus Metrics", func |-> "test_prometheus_metrics"],
    [name |-> "Jaeger Traces", func |-> "test_jaeger_traces"],
    [name |-> "Elasticsearch Logs", func |-> "test_elasticsearch_logs"],
    [name |-> "Grafana Datasources", func |-> "test_grafana_datasources"],
    [name |-> "Frontend Tracing", func |-> "test_frontend_tracing"],
    [name |-> "Trace Correlation", func |-> "test_trace_correlation"]>>

TestIndex(func) ==
  IF \E i \in 1..Len(tests) : tests[i].func = func
  THEN CHOOSE i \in 1..Len(tests) : tests[i].func = func
  ELSE Len(tests) + 1

NameOf(func) == tests[TestIndex(func)].name

(* The position after the test func: the next test, or the summary *)
After(func) ==
  IF TestIndex(func) < Len(tests) THEN tests[TestIndex(func) + 1].func ELSE "summary"

(* validate-setup.py:420-424  The test returned: its result is stored and, *)
(* if true, counted.                                                       *)
Returned(func, outcome) ==
  /\ v_pc = func
  /\ test_results' = Record(test_results, NameOf(func), outcome)
  /\ passed_tests' = IF Truthy(outcome) THEN passed_tests + 1 ELSE passed_tests
  /\ v_pc' = After(func)

(* validate-setup.py:426-428  The test raised an Exception: it is stored   *)
(* as False and the loop goes on.                                          *)
Threw(func) ==
  /\ v_pc = func
  /\ test_results' = Record(test_results, NameOf(func), PyBool(FALSE))
  /\ v_pc' = After(func)
  /\ UNCHANGED passed_tests

(* What a service answers: a status, or nothing (0) when the call raises,  *)
(* and how many of the items a test looks for its body holds.              *)
NoAnswer == 0

Statuses == {200, 503, NoAnswer}

Answers == [status : Statuses, found : 0..MaxFound]

(* validate-setup.py:25-35  the keys of self.services *)
services ==
  {"frontend", "backend", "jaeger", "prometheus", "elasticsearch", "kibana", "grafana",
   "victoriametrics", "otel-collector"}

(* validate-setup.py:58-73 *)
test_service_health(status) == status = 200

(* validate-setup.py:75-96  the dict of every service's health *)
test_basic_connectivity(statuses) ==
  PyDict([service \in services |-> test_service_health(statuses[service])])

(* validate-setup.py:136-167  True unless a call raised *)
test_prometheus_metrics(answer) == PyBool(answer.status # NoAnswer)

(* validate-setup.py:169-216 *)
test_jaeger_traces(answer) == PyBool(answer.status = 200 /\ answer.found > 0)

(* validate-setup.py:218-263 *)
test_elasticsearch_logs(answer) == PyBool(answer.status = 200)

(* validate-setup.py:265-302 *)
test_grafana_datasources(answer) == PyBool(answer.status = 200 /\ answer.found >= 2)

(* validate-setup.py:304-342 *)
test_frontend_tracing(answer) == PyBool(answer.status = 200)

(* Every way the nine services can answer, and a few of them *)
AllHealths == [services -> Statuses]

SomeHealths ==
  {[service \in services |-> status] : status \in Statuses}
    \cup {[service \in services |-> IF service = "kibana" THEN 503 ELSE 200]}

basic_connectivity(healths) ==
  /\ \E statuses \in healths :
       Returned("test_basic_connectivity", test_basic_connectivity(statuses))
  /\ UNCHANGED <<application, telemetry, v_endpoint, trace_id, success, exit_status>>

(* requests.get raised something other than a RequestException, which      *)
(* test_service_health does not catch                                      *)
basic_connectivity_raises ==
  /\ Threw("test_basic_connectivity")
  /\ UNCHANGED <<application, telemetry, v_endpoint, trace_id, success, exit_status>>

(* validate-setup.py:111-113  requests.get / requests.post is called *)
send ==
  /\ v_pc = "test_backend_api"
  /\ Entry(1, endpoints[v_endpoint])

(* validate-setup.py:115-130  The call returned a response: the status is  *)
(* printed, the X-Trace-Id header is read, and after the last endpoint the *)
(* test returns True.                                                      *)
receive ==
  /\ v_pc = "test_backend_api"
  /\ pc[1] = "done"
  /\ result[1] # Raised("CancelledError")
  /\ LET response == Received(result[1])
         trace_header == HeadersGet(response.headers, "X-Trace-Id")
     IN trace_id' = IF trace_header # None /\ trace_id = None THEN trace_header
                    ELSE trace_id
  /\ IF v_endpoint < Len(endpoints)
     THEN /\ v_endpoint' = v_endpoint + 1
          /\ UNCHANGED <<v_pc, test_results, passed_tests>>
     ELSE /\ Returned("test_backend_api", PyBool(TRUE))
          /\ UNCHANGED v_endpoint
  /\ Released(1)
  /\ UNCHANGED <<app_logs, registry, otel, scrapes, telemetry, success, exit_status>>

(* validate-setup.py:132-134  The call raised, the connection having been  *)
(* refused or lost or the timeout reached: the test returns False.         *)
request_fails ==
  /\ v_pc = "test_backend_api"
  /\ \/ pc[1] = "idle" /\ UNCHANGED <<pc, req, ctx, span_trace, span_id, span_status,
                                        events, logs, call_result, result>>
     \/ pc[1] = "done" /\ result[1] = Raised("CancelledError") /\ Released(1)
  /\ Returned("test_backend_api", PyBool(FALSE))
  /\ UNCHANGED <<v_endpoint, trace_id, app_logs, registry, otel, scrapes, telemetry,
                 success, exit_status>>

prometheus_metrics ==
  /\ \E answer \in Answers :
       Returned("test_prometheus_metrics", test_prometheus_metrics(answer))
  /\ UNCHANGED <<application, telemetry, v_endpoint, trace_id, success, exit_status>>

jaeger_traces ==
  /\ \E answer \in Answers : Returned("test_jaeger_traces", test_jaeger_traces(answer))
  /\ UNCHANGED <<application, telemetry, v_endpoint, trace_id, success, exit_status>>

elasticsearch_logs ==
  /\ \E answer \in Answers :
       Returned("test_elasticsearch_logs", test_elasticsearch_logs(answer))
  /\ UNCHANGED <<application, telemetry, v_endpoint, trace_id, success, exit_status>>

grafana_datasources ==
  /\ \E answer \in Answers :
       Returned("test_grafana_datasources", test_grafana_datasources(answer))
  /\ UNCHANGED <<application, telemetry, v_endpoint, trace_id, success, exit_status>>

frontend_tracing ==
  /\ \E answer \in Answers :
       Returned("test_frontend_tracing", test_frontend_tracing(answer))
  /\ UNCHANGED <<application, telemetry, v_endpoint, trace_id, success, exit_status>>

(* validate-setup.py:344-390  Without a trace id the test returns False;   *)
(* with one it asks Jaeger for the trace and returns whether Jaeger        *)
(* answered 200 with data.                                                 *)
test_trace_correlation ==
  /\ \E found \in BOOLEAN :
       Returned("test_trace_correlation",
                PyBool(IF trace_id = None THEN FALSE ELSE found))
  /\ UNCHANGED <<application, telemetry, v_endpoint, trace_id, success, exit_status>>

(* A summary that asks for half of the tests *)
summary_half ==
  /\ v_pc = "summary"
  /\ success' = (passed_tests * 2 >= Len(tests))
  /\ v_pc' = "returned"
  /\ UNCHANGED <<application, telemetry, v_endpoint, trace_id, test_results, passed_tests,
                 exit_status>>

(* validate-setup.py:430-447  The summary is printed and run_all_tests     *)
(* returns: True when all tests passed or at least 0.7 of them did.        *)
summary ==
  /\ v_pc = "summary"
  /\ success' = (passed_tests = Len(tests) \/ passed_tests * 10 >= Len(tests) * 7)
  /\ v_pc' = "returned"
  /\ UNCHANGED <<application, telemetry, v_endpoint, trace_id, test_results, passed_tests,
                 exit_status>>

(* validate-setup.py:450-455, 469  main exits with 1 on failure; otherwise *)
(* the interpreter ends with status 0.                                     *)
main ==
  /\ v_pc = "returned"
  /\ exit_status' = IF ~success THEN 1 ELSE 0
  /\ v_pc' = "exited"
  /\ UNCHANGED <<application, telemetry, v_endpoint, trace_id, test_results, passed_tests,
                 success>>

(* The line of the summary for a test, validate-setup.py:433-435 *)
SummaryStatus(name) == IF Truthy(test_results[name]) THEN "PASS" ELSE "FAIL"

NextValidator ==
  \/ lifespan
  \/ basic_connectivity(SomeHealths)
  \/ basic_connectivity_raises
  \/ send
  \/ HandlerRun(1)
  \/ HandlerResume(1)
  \/ \E e \in ErrorTypes : HandlerRaises(1, e)
  \/ Completion(1)
  \/ Cancel(1)
  \/ receive
  \/ request_fails
  \/ prometheus_metrics
  \/ jaeger_traces
  \/ elasticsearch_logs
  \/ grafana_datasources
  \/ frontend_tracing
  \/ test_trace_correlation
  \/ summary
  \/ main

SpecValidator == Init /\ [][NextValidator]_vars

(***************************************************************************)
(* The connectivity test alone, over every way the services can answer.    *)
(***************************************************************************)
NextConnectivity ==
  \/ basic_connectivity(AllHealths)
  \/ basic_connectivity_raises

SpecConnectivity == Init /\ [][NextConnectivity]_vars

(***************************************************************************)
(* Properties.                                                             *)
(***************************************************************************)
IsResponse(x, status) == x.kind = "response" /\ x.status_code = status

Done(r) == pc[r] = "done"
CountOf(seq, x) == Cardinality({i \in 1..Len(seq) : seq[i] = x})
IndexOf(seq, x) == CHOOSE i \in 1..Len(seq) : seq[i] = x
SpanNames == {"FastAPIInstrumentor", "observability_middleware", "root_handler", "get_users",
              "get_user", "create_user", "slow_operation", "error_operation"}
Opens(r) == Cardinality({i \in 1..Len(events[r]) : events[r][i][1] = "open"})
Closes(r) == Cardinality({i \in 1..Len(events[r]) : events[r][i][1] = "close"})
(* This step is request r's middleware resuming from call_next and running to its end *)
Completes(r) == pc[r] = "responded" /\ pc'[r] = "done"
CaughtException(r) == call_result[r].kind = "raise" /\ IsException(call_result[r].error_type)
WasCancelled(r) == call_result[r] = Raised("CancelledError")
HasLog(r, msg) == \E i \in 1..Len(logs[r]) : logs[r][i].message = msg

(* C1: once every request that was started has finished, whatever the      *)
(* interleaving and the outcomes, the active_requests gauge is back at the *)
(* 0 it had before the first request.                                      *)
C1_GaugeRestored ==
  (\A r \in Requests : pc[r] \in {"idle", "done"}) => active_requests = 0

(* Two requests were in flight together (a scrape saw both), one of them   *)
(* ended in an exception, and all have finished.                           *)
C1_Witness ==
  /\ \A r \in Requests : Done(r)
  /\ \E i \in 1..Len(scrapes) : scrapes[i].active_requests >= 2
  /\ \E r \in Requests : CaughtException(r)
  /\ \E r \in Requests : result[r].kind = "response"

(* C2: the step in which the middleware catches an exception from          *)
(* call_next adds exactly 1 to error_count for (method, path, type name of *)
(* the exception) and changes no other error_count child.                  *)
C2_ErrorCountedOnce ==
  [][\A r \in Requests :
       (Completes(r) /\ CaughtException(r)) =>
          LET key == <<req[r].method, req[r].path, call_result[r].error_type>> IN
            /\ DOMAIN error_count' = DOMAIN error_count \cup {key}
            /\ \A k \in DOMAIN error_count' :
                 error_count'[k] = ValueOf(error_count, k) + (IF k = key THEN 1 ELSE 0)]_vars

(* Two requests failed with different exception types; each has its own    *)
(* child at 1.                                                             *)
C2_Witness ==
  /\ \A r \in Requests : Done(r) /\ CaughtException(r)
  /\ Cardinality(DOMAIN error_count) = 2
  /\ \A k \in DOMAIN error_count : error_count[k] = 1

(* C3: when call_next raised, the middleware's caller gets that same error *)
(* and never a response, and a caught exception has been logged and set on *)
(* the span by then.                                                       *)
C3_NeverSwallows ==
  \A r \in Requests :
    (Done(r) /\ call_result[r].kind = "raise") =>
       /\ result[r] = call_result[r]
       /\ CaughtException(r) =>
            HasLog(r, "Request failed") /\ span_status[r].status_code = "ERROR"

C3_Witness ==
  \E r \in Requests :
    /\ Done(r)
    /\ result[r] = Raised("RuntimeError")
    /\ HasLog(r, "Request failed")

(* C4 as stated: a completed request has exactly one span-open and exactly *)
(* one span-close event, the open before the close.                        *)
C4_ExactlyOneSpan ==
  \A r \in Requests :
    Done(r) => /\ Opens(r) = 1
               /\ Closes(r) = 1
               /\ events[r][1][1] = "open"

(* C4 amended: a completed request has exactly one open and one close of   *)
(* the middleware's own span, the open first; it has at least one more     *)
(* span (the instrumentor's, and the handler's when the handler ran), and  *)
(* every span opened during the request is closed exactly once, after its  *)
(* open.                                                                   *)
C4_MiddlewareSpanOnceAllClosed ==
  \A r \in Requests :
    Done(r) =>
      /\ CountOf(events[r], Open("observability_middleware")) = 1
      /\ CountOf(events[r], Close("observability_middleware")) = 1
      /\ Opens(r) >= 2
      /\ \A n \in SpanNames :
           /\ CountOf(events[r], Open(n)) <= 1
           /\ CountOf(events[r], Close(n)) = CountOf(events[r], Open(n))
           /\ CountOf(events[r], Open(n)) = 1 =>
                IndexOf(events[r], Open(n)) < IndexOf(events[r], Close(n))

(* GET / completed with three spans, and a request cancelled in its        *)
(* handler's sleep completed with the handler's span closed.               *)
C4_Witness ==
  /\ \E r \in Requests : Done(r) /\ HandlerOf(r) = "root" /\ Opens(r) = 3 /\ Closes(r) = 3
  /\ \E r \in Requests : Done(r) /\ WasCancelled(r) /\ Opens(r) = 3

(* C5: a request with a valid traceparent header gets a middleware span    *)
(* with the header's trace id; with the header absent or invalid the       *)
(* request is dispatched all the same and its span has a non-zero trace id *)
ValidTraceparent(tp) == tp.form = "parsed" /\ tp.trace_id # 0 /\ tp.span_id # 0

C5_TraceContinuedOrFresh ==
  \A r \in Requests :
    pc[r] # "idle" =>
      IF ValidTraceparent(req[r].traceparent)
      THEN span_trace[r] = req[r].traceparent.trace_id
      ELSE /\ span_trace[r] \in TraceIds
           /\ span_trace[r] # 0
           /\ result[r].kind = "response" =>
                result[r].status_code = HandlerStatus(HandlerOf(r), req[r].path)

C5_Witness ==
  /\ \E r \in Requests : /\ req[r].traceparent = Traceparent("parsed", 2, 1)
                         /\ span_trace[r] = 2
                         /\ Done(r)
  /\ \E r \in Requests : /\ req[r].traceparent = Traceparent("parsed", 0, 1)
                         /\ span_trace[r] # 0
                         /\ IsResponse(result[r], 200)

(* C6 as stated: the sum of request_count over all label tuples equals the *)
(* number of requests whose handling has completed.                        *)
C6_CountsEveryCompleted ==
  Total(request_count) = Cardinality({r \in Requests : Done(r)})

(* C6 amended: request_count is incremented exactly once per completed     *)
(* request whose call_next returned a response, error responses included,  *)
(* and not for a request that ended in an exception or was cancelled: the  *)
(* sum over all label tuples equals the number of completed requests that  *)
(* got a response, and each child equals the number of them with its       *)
(* method, path and status code.                                           *)
C6_CountsEveryResponse ==
  /\ Total(request_count) =
       Cardinality({r \in Requests : Done(r) /\ call_result[r].kind = "response"})
  /\ \A k \in DOMAIN request_count :
       request_count[k] =
         Cardinality({r \in Requests : /\ Done(r)
                                       /\ call_result[r].kind = "response"
                                       /\ k = RequestLabels(r, call_result[r].status_code)})

(* One request answered with an error response and counted, one ended in   *)
(* an exception and not counted.                                           *)
C6_Witness ==
  /\ \E r \in Requests : Done(r) /\ IsResponse(result[r], 404)
  /\ \E r \in Requests : Done(r) /\ CaughtException(r)
  /\ Total(request_count) = 1

(* C7: GET /api/error and GET /api/users/{id} with id > 10 are answered    *)
(* with a response of status 500 and 404; completing a request answered    *)
(* with status >= 400 adds 1 to request_count for that status and leaves   *)
(* error_count as it is; error_count changes only when the middleware      *)
(* catches an exception.                                                   *)
DeliberateError(r) ==
  \/ HandlerOf(r) = "error_endpoint"
  \/ HandlerOf(r) = "get_user" /\ req[r].path[3] > MaxUserId

SameChildren(c, d) == DOMAIN c = DOMAIN d /\ \A k \in DOMAIN c : c[k] = d[k]

C7_ErrorResponsesNotErrors ==
  /\ [](\A r \in Requests :
          (pc[r] # "idle" /\ DeliberateError(r) /\ call_result[r].kind = "response")
            => call_result[r].status_code >= 400)
  /\ [][\A r \in Requests :
          (Completes(r) /\ call_result[r].kind = "response" /\ call_result[r].status_code >= 400)
            => LET key == <<req[r].method, req[r].path, ToString(call_result[r].status_code)>> IN
                 /\ SameChildren(error_count', error_count)
                 /\ key \in DOMAIN request_count'
                 /\ request_count'[key] = ValueOf(request_count, key) + 1]_vars
  /\ [][~SameChildren(error_count', error_count)
          => \E r \in Requests : Completes(r) /\ CaughtException(r)]_vars

C7_Witness ==
  /\ \E r \in Requests : /\ Done(r)
                         /\ HandlerOf(r) = "error_endpoint"
                         /\ IsResponse(result[r], 500)
                         /\ ValueOf(request_count, <<"GET", <<"api", "error">>, "500">>) = 1
  /\ \E r \in Requests : /\ Done(r)
                         /\ HandlerOf(r) = "get_user"
                         /\ IsResponse(result[r], 404)
                         /\ ValueOf(request_count, <<"GET", <<"api", "users", 11>>, "404">>) = 1
  /\ DOMAIN error_count = {}

(* C8: when a request cancelled during dispatch unwinds, the gauge goes    *)
(* down by exactly 1 and the request is left with its middleware span      *)
(* closed and no span open.                                                *)
C8_CancelledStillExits ==
  [][\A r \in Requests :
       (Completes(r) /\ WasCancelled(r)) =>
          /\ active_requests' = active_requests - 1
          /\ CountOf(events'[r], Close("observability_middleware")) = 1
          /\ \A n \in SpanNames :
               CountOf(events'[r], Close(n)) = CountOf(events'[r], Open(n))]_vars

(* A request cancelled while its handler slept has finished, the handler's *)
(* span closed, and the gauge is at 0.                                     *)
C8_Witness ==
  \E r \in Requests :
    /\ Done(r)
    /\ WasCancelled(r)
    /\ CountOf(events[r], Close("get_user")) = 1
    /\ active_requests = 0

(* C9: a request cancelled during dispatch takes the Failure branch: when  *)
(* it has finished, error_count has counted it under the cancellation      *)
(* error type, its span status is ERROR and a "Request failed" record was  *)
(* logged.                                                                 *)
C9_CancelledIsFailure ==
  \A r \in Requests :
    (Done(r) /\ WasCancelled(r)) =>
       /\ ValueOf(error_count, <<req[r].method, req[r].path, "CancelledError">>) >= 1
       /\ span_status[r].status_code = "ERROR"
       /\ HasLog(r, "Request failed")

(* C10: no step lowers or removes a request_count or error_count child, a  *)
(* GET /metrics scrape leaves every child as it is, and of two scrapes the *)
(* later reports every child of the earlier with a value at least as high. *)
NotLower(c, d) == \A k \in DOMAIN c : k \in DOMAIN d /\ d[k] >= c[k]

C10_CountersMonotone ==
  /\ [][NotLower(request_count, request_count') /\ NotLower(error_count, error_count')]_vars
  /\ [][Len(scrapes') > Len(scrapes) =>
          /\ SameChildren(request_count', request_count)
          /\ SameChildren(error_count', error_count)]_vars
  /\ [](\A i, j \in 1..Len(scrapes) :
          i < j => /\ NotLower(scrapes[i].request_count, scrapes[j].request_count)
                   /\ NotLower(scrapes[i].error_count, scrapes[j].error_count))

(* Two scrapes, the second reporting the first's own request.              *)
C10_Witness ==
  /\ Len(scrapes) = 2
  /\ DOMAIN scrapes[1].request_count = {}
  /\ ValueOf(scrapes[2].request_count, <<"GET", <<"metrics">>, "200">>) = 1
  /\ ValueOf(request_count, <<"GET", <<"metrics">>, "200">>) = 2

(* C11: the endpoint label of request_count, request_duration and        *)
(* error_count is the route template: two label tuples whose paths resolve *)
(* to the same route carry the same endpoint label, so the number of       *)
(* distinct endpoint labels never exceeds the number of routes.            *)
EndpointLabels ==
  {<<k[1], k[2]>> : k \in DOMAIN request_count}
    \cup {<<k[1], k[2]>> : k \in DOMAIN request_duration}
    \cup {<<k[1], k[2]>> : k \in DOMAIN error_count}

C11_EndpointLabelIsTemplate ==
  /\ \A a, b \in EndpointLabels : Route(a[1], a[2]) = Route(b[1], b[2]) => a = b
  /\ Cardinality(EndpointLabels) <= Cardinality({Route(a[1], a[2]) : a \in EndpointLabels})

(* C12 as stated: each of request_count, request_duration, active_requests *)
(* and error_count has an instrument of the metrics provider that holds    *)
(* the same values whenever no request is inside its Completion step.      *)
(* The provider's instruments are those created at app.py:136-146; an      *)
(* instrument that was never created exports nothing.                      *)
ProviderInstruments ==
  [request_count |-> otel_request_counter, request_duration |-> otel_request_duration]

C12_EveryInstrumentMirrored ==
  /\ SameChildren(ProviderInstruments.request_count, request_count)
  /\ SameChildren(ProviderInstruments.request_duration, request_duration)
  /\ "error_count" \in DOMAIN ProviderInstruments \/ DOMAIN error_count = {}
  /\ "active_requests" \in DOMAIN ProviderInstruments \/ active_requests = 0

(* C12 amended: request_count and request_duration each have an instrument *)
(* of the metrics provider (api_requests_total, api_request_duration) that *)
(* is updated in the same step with the same labels, so in every state the *)
(* provider's counter equals request_count child by child and the          *)
(* provider's histogram has as many records as request_duration has        *)
(* observations; active_requests and error_count have no such instrument.  *)
C12_CountAndDurationMirrored ==
  /\ SameChildren(ProviderInstruments.request_count, request_count)
  /\ SameChildren(ProviderInstruments.request_duration, request_duration)
  /\ DOMAIN ProviderInstruments = {"request_count", "request_duration"}

(* An error response has been counted on both sides, and an exception has  *)
(* been counted by error_count, which has no counterpart.                  *)
C12_Witness ==
  /\ \E k \in DOMAIN otel_request_counter : k[3] = "404" /\ otel_request_counter[k] = 1
  /\ \E k \in DOMAIN otel_request_duration : otel_request_duration[k] = 1
  /\ DOMAIN error_count # {}
  /\ \A r \in Requests : Done(r)

(* C13: for each request the "Request started" record is the first the     *)
(* middleware emits, before its "Request completed" or "Request failed"    *)
(* record, and a request has at most one of those two, never both.         *)
LogCount(r, msg) == Cardinality({i \in 1..Len(logs[r]) : logs[r][i].message = msg})

C13_StartedFirstOneOutcome ==
  \A r \in Requests :
    /\ logs[r] # <<>> => logs[r][1].message = "Request started"
    /\ LogCount(r, "Request started") <= 1
    /\ LogCount(r, "Request completed") + LogCount(r, "Request failed") <= 1
    /\ \A i \in 1..Len(logs[r]) :
         logs[r][i].message \in {"Request completed", "Request failed"} => i > 1
    /\ pc[r] # "idle" => LogCount(r, "Request started") = 1

(* Two requests were in flight together; one logged completed, the other   *)
(* failed.                                                                 *)
C13_Witness ==
  /\ \E i \in 1..Len(scrapes) : scrapes[i].active_requests >= 2
  /\ \E r \in Requests : Len(logs[r]) = 2 /\ logs[r][2].message = "Request completed"
  /\ \E r \in Requests : Len(logs[r]) = 2 /\ logs[r][2].message = "Request failed"

(* C14: every record the middleware logs for a request carries the trace   *)
(* id and the span id of that request's own middleware span, formatted as  *)
(* 32 and 16 hexadecimal digits, whatever other requests are in flight; a  *)
(* record logged with no valid span carries the all-zero ids.              *)
OwnSpanIds(r) ==
  [trace_id |-> format_x(span_trace[r], TraceIdWidth),
   span_id |-> format_x(span_id[r], SpanIdWidth)]

C14_LogsCarryOwnSpan ==
  /\ \A r \in Requests : \A i \in 1..Len(logs[r]) :
       /\ logs[r][i].trace_id = OwnSpanIds(r).trace_id
       /\ logs[r][i].span_id = OwnSpanIds(r).span_id
       /\ logs[r][i].trace_id # Zeros(TraceIdWidth)
       /\ logs[r][i].span_id # Zeros(SpanIdWidth)
  /\ \A i \in 1..Len(app_logs) :
       /\ app_logs[i].trace_id = Zeros(TraceIdWidth)
       /\ app_logs[i].span_id = Zeros(SpanIdWidth)

(* The first request logged its outcome after the second had started in    *)
(* another trace, and the startup record was logged outside any span.      *)
C14_Witness ==
  /\ Len(app_logs) = 1
  /\ Len(logs[1]) = 2 /\ Len(logs[2]) = 1
  /\ pc[1] = "done" /\ pc[2] = "dispatch"
  /\ span_trace[1] # span_trace[2]
  /\ logs[1][2].span_id # logs[2][1].span_id

(* C20: in every state active_requests is the number of requests that have *)
(* passed the gauge increment and not yet run Exit, and is never negative. *)
C20_GaugeCountsInFlight ==
  /\ active_requests >= 0
  /\ active_requests =
       Cardinality({r \in Requests : pc[r] \in {"dispatch", "sleeping", "responded"}})

(* One request has left through the except branch and the other, which    *)
(* was cancelled, has not yet run its finally: the gauge reads 1.          *)
C20_Witness ==
  /\ \E r \in Requests : Done(r) /\ CaughtException(r)
  /\ \E r \in Requests : pc[r] = "responded" /\ WasCancelled(r)
  /\ active_requests = 1

(* C15: in every reachable state a GET /health that has been answered has *)
(* status 200 and a body whose status is "healthy" and whose timestamp is  *)
(* a reading of the clock, and the middleware hands that response on.      *)
C15_HealthAlwaysHealthy ==
  \A r \in Requests :
    HandlerOf(r) = "health_check" =>
      /\ call_result[r].kind = "response" =>
           /\ call_result[r].status_code = 200
           /\ call_result[r].body.status = "healthy"
           /\ call_result[r].body.timestamp \in Times
      /\ Done(r) /\ ~WasCancelled(r) => result[r] = call_result[r]

(* /health answered after one request failed with an exception and while   *)
(* the error counter is non-empty.                                         *)
C15_Witness ==
  /\ Done(1) /\ CaughtException(1)
  /\ HandlerOf(2) = "health_check" /\ Done(2)
  /\ IsResponse(result[2], 200)
  /\ DOMAIN error_count # {}

(* C16: GET /api/users/{id} answers 404 when id > 10 and otherwise 200     *)
(* with the body {id, name "User <id>", email "user<id>@example.com"}.     *)
C16_UserLookup ==
  \A r \in Requests :
    HandlerOf(r) = "get_user" /\ result[r].kind = "response" =>
      LET id == req[r].path[3] IN
        IF id > 10
        THEN result[r].status_code = 404
        ELSE /\ result[r].status_code = 200
             /\ result[r].body = [id |-> id, name |-> <<"User ", id>>,
                                  email |-> <<"user", id, "@example.com">>]

(* The id 10, the last one that is found, has been answered with its user. *)
C16_Witness ==
  /\ HandlerOf(1) = "get_user" /\ Done(1)
  /\ req[1].path[3] = 10
  /\ IsResponse(result[1], 200)
  /\ result[1].body.id = 10

(* C17: POST /api/users with a body that has a name and an email answers   *)
(* 200 with an id field and the same name and email.                       *)
C17_CreateEchoes ==
  \A r \in Requests :
    /\ HandlerOf(r) = "create_user"
    /\ {"name", "email"} \subseteq DOMAIN req[r].json
    /\ result[r].kind = "response"
    => /\ result[r].status_code = 200
       /\ "id" \in DOMAIN result[r].body
       /\ result[r].body.id = NewUserId
       /\ result[r].body.name = req[r].json.name
       /\ result[r].body.email = req[r].json.email

(* A creation whose body also names an id has been answered.               *)
C17_Witness ==
  /\ HandlerOf(1) = "create_user" /\ Done(1)
  /\ "id" \in DOMAIN req[1].json
  /\ IsResponse(result[1], 200)
  /\ result[1].body.name = "Bob"

(* C18: whether or not the collector can be reached, at startup and at any *)
(* later time, the application starts, and every finished request got      *)
(* from the middleware exactly what the application produced for it: the   *)
(* handler's response, or the exception call_next raised.                  *)
C18_CollectorNeverSeen ==
  /\ app_logs = <<>> => ENABLED lifespan
  /\ \A r \in Requests :
       Done(r) =>
         /\ result[r] = call_result[r]
         /\ result[r].kind = "response" =>
              /\ result[r].status_code = HandlerStatus(HandlerOf(r), req[r].path)
              /\ \E now \in Times : result[r].body = Handler(HandlerOf(r), req[r], now).body

(* The application started and answered both requests while the collector  *)
(* was unreachable, and their spans were dropped by the exporter.          *)
C18_Witness ==
  /\ ~collector_up
  /\ \A r \in Requests : Done(r) /\ result[r].kind = "response"
  /\ IsResponse(result[1], 200) /\ IsResponse(result[2], 404)
  /\ taken = EndedSpans /\ exported = 0 /\ metrics_exported = 0

(* C19: once test_backend_api has received a response to each of its four  *)
(* requests, the validator's trace_id is set, so that                      *)
(* test_trace_correlation does not fail for lack of a trace id.            *)
C19_TraceIdCaptured ==
  "Backend API" \in DOMAIN test_results /\ Truthy(test_results["Backend API"])
    => trace_id # None

(* C21: a request's phases come in order and never go back (arrival and   *)
(* span open, dispatch, completion and exit), and the completion step of a *)
(* request adds 1 to exactly one of request_count and error_count, or to   *)
(* neither when the request was cancelled; no other step changes either.   *)
Phase(p) ==
  CASE p = "idle" -> 0
    [] p = "dispatch" -> 1
    [] p = "sleeping" -> 2
    [] p = "responded" -> 3
    [] p = "done" -> 4

C21_PhasesInOrderOneBranch ==
  [][LET counted == Total(request_count') - Total(request_count)
         failed == Total(error_count') - Total(error_count)
     IN /\ \A r \in Requests : Phase(pc'[r]) >= Phase(pc[r])
        /\ \A r \in Requests :
             Completes(r) =>
               /\ counted \in {0, 1} /\ failed \in {0, 1}
               /\ counted + failed <= 1
               /\ ~WasCancelled(r) => counted + failed = 1
               /\ counted = 1 <=> call_result[r].kind = "response"
               /\ failed = 1 <=> CaughtException(r)
        /\ (\A r \in Requests : ~Completes(r)) => counted = 0 /\ failed = 0]_vars

(* One request finished on the success branch, the other on the failure    *)
(* branch: each counter stands at 1.                                       *)
C21_Witness ==
  /\ Done(1) /\ result[1].kind = "response"
  /\ Done(2) /\ CaughtException(2)
  /\ Total(request_count) = 1 /\ Total(error_count) = 1

(* C22: every request whose middleware span has been opened eventually     *)
(* reaches its exit, with the middleware's span closed once, whether       *)
(* call_next returned, raised or was cancelled.                            *)
SpanOpen(r) == pc[r] \in {"dispatch", "sleeping", "responded"}

SpanClosed(r) ==
  /\ Done(r)
  /\ CountOf(events[r], Close("observability_middleware")) = 1
  /\ Opens(r) = Closes(r)

C22_OpenedSpanEventuallyClosed ==
  \A r \in Requests : SpanOpen(r) ~> SpanClosed(r)

(* A request that was cancelled in its handler's sleep has reached its     *)
(* exit with every span closed.                                            *)
C22_Witness ==
  \E r \in Requests :
    /\ SpanClosed(r) /\ WasCancelled(r)
    /\ Sleeps(HandlerOf(r))
    /\ CountOf(events[r], Open(HandlerSpan(HandlerOf(r))[1])) = 1

(* C23: when call_next returned a response, the middleware leaves the      *)
(* span's status OK if the status code is below 400 and otherwise ERROR     *)
(* with a description that holds the status code, and hands the caller the *)
(* handler's response unchanged in both cases.                             *)
C23_SpanStatusFromStatusCode ==
  \A r \in Requests :
    Done(r) /\ call_result[r].kind = "response" =>
      /\ IF call_result[r].status_code < 400
         THEN span_status[r].status_code = "OK"
         ELSE /\ span_status[r].status_code = "ERROR"
              /\ span_status[r].description = <<"HTTP", call_result[r].status_code>>
      /\ result[r] = call_result[r]

(* A 200, and a 404 whose span is ERROR, have both been handed on.          *)
C23_Witness ==
  /\ Done(1) /\ IsResponse(result[1], 200) /\ span_status[1].status_code = "OK"
  /\ Done(2) /\ IsResponse(result[2], 404) /\ span_status[2].status_code = "ERROR"

(* C26: a scrape is a request like any other.  The snapshot a scrape takes  *)
(* shows active_requests >= 1 and, for GET /metrics, exactly the scrapes   *)
(* that were answered before it was taken, never itself; the scrape's own  *)
(* increment is made when its middleware completes, after the snapshot,    *)
(* and is in every snapshot taken from then on.                            *)
ScrapeLabels == <<"GET", <<"metrics">>, "200">>

AnsweredScrapes(except) ==
  Cardinality({q \in Requests \ {except} :
                 Done(q) /\ HandlerOf(q) = "metrics" /\ result[q].kind = "response"})

C26_ScrapeCountsItselfLater ==
  [][\A r \in Requests :
       /\ (pc[r] = "dispatch" /\ pc'[r] = "responded" /\ HandlerOf(r) = "metrics"
           /\ call_result'[r].kind = "response") =>
            /\ Len(scrapes') = Len(scrapes) + 1
            /\ scrapes'[Len(scrapes')].active_requests >= 1
            /\ ValueOf(scrapes'[Len(scrapes')].request_count, ScrapeLabels)
                 = AnsweredScrapes(r)
            /\ ValueOf(request_count', ScrapeLabels) = ValueOf(request_count, ScrapeLabels)
       /\ (Completes(r) /\ HandlerOf(r) = "metrics" /\ call_result[r].kind = "response") =>
            /\ scrapes' = scrapes
            /\ ValueOf(request_count', ScrapeLabels)
                 = ValueOf(request_count, ScrapeLabels) + 1]_vars

(* Two scrapes one after the other: the first shows no scrape counted, the *)
(* second shows the first.                                                 *)
C26_Witness ==
  /\ Len(scrapes) = 2
  /\ ValueOf(scrapes[1].request_count, ScrapeLabels) = 0
  /\ ValueOf(scrapes[2].request_count, ScrapeLabels) = 1
  /\ scrapes[1].active_requests = 1 /\ scrapes[2].active_requests = 1
  /\ \A r \in Requests : Done(r)

(***************************************************************************)
(* C24: the Basic Connectivity line of the summary is PASS, and the test   *)
(* is counted among the passed ones, only if every polled service answered *)
(* its health endpoint with status 200.                                    *)
(***************************************************************************)
AllHealthy(outcome) ==
  /\ outcome.type = "dict"
  /\ \A service \in DOMAIN outcome.value : outcome.value[service]

C24_ConnectivityPassNeedsAllHealthy ==
  /\ "Basic Connectivity" \in DOMAIN test_results
  /\ SummaryStatus("Basic Connectivity") = "PASS" \/ passed_tests > 0
  => AllHealthy(test_results["Basic Connectivity"])

(***************************************************************************)
(* C25: run_all_tests runs the eight tests in the listed order, whatever   *)
(* they return or raise: the results stored so far are those of the tests  *)
(* before the current one, and after the last test all eight are stored.   *)
(* A test that raised is stored as False and is not counted.  The count is *)
(* the number of stored results that are true, run_all_tests returns True  *)
(* exactly when the count is at least 6, and the process exits with *)
(* status 1 exactly when False was returned, with 0 otherwise.             *)
(***************************************************************************)
TestsBefore(position) == {tests[i].name : i \in 1..(TestIndex(position) - 1)}

PassedNames == {name \in DOMAIN test_results : Truthy(test_results[name])}

C25_RunsAllTestsAndDecides ==
  /\ Len(tests) = 8
  /\ TestIndex("test_backend_api") < TestIndex("test_trace_correlation")
  /\ DOMAIN test_results = TestsBefore(v_pc)
  /\ passed_tests = Cardinality(PassedNames)
  /\ \A name \in DOMAIN test_results :
       test_results[name].type = "bool" \/ name = "Basic Connectivity"
  /\ "Basic Connectivity" \in DOMAIN test_results
       /\ test_results["Basic Connectivity"].type = "bool"
       => ~test_results["Basic Connectivity"].value
  /\ v_pc \in {"returned", "exited"} => (success <=> passed_tests >= 6)
  /\ v_pc = "exited" => exit_status = (IF success THEN 0 ELSE 1)
  /\ v_pc # "exited" => exit_status = Running

(* The first test raised, five of the other seven passed, and the process  *)
(* has exited with status 1 after all eight tests.                         *)
C25_Witness ==
  /\ v_pc = "exited"
  /\ exit_status = 1
  /\ passed_tests = 5
  /\ test_results["Basic Connectivity"] = PyBool(FALSE)
  /\ DOMAIN test_results = {tests[i].name : i \in 1..Len(tests)}

====
